---- MODULE Spec2Model ----
(***************************************************************************)
(* Lakeshore 218 / Lakeshore 370 drivers                                   *)
(* (src/pylablib/devices/Lakeshore/base.py).                               *)
(*                                                                         *)
(* One driver object talks to one instrument over one serial connection.   *)
(* Every public method is one action: the whole method body, including     *)
(* the nested read-backs, runs inside the action.  A transport failure may *)
(* hit any command of a call (failAt = k fails the k-th command put on the *)
(* wire by the call, failAt = 0 fails none).                               *)
(*                                                                         *)
(* Wire messages are sequences of tokens: the mnemonic, then separators    *)
(* and values exactly as the format string of the source lays them out.    *)
(* Floats are integers counted in units of 1e-7, so that both float        *)
(* formats of the source ("{:.3f}" and "{:f}") lose digits.                *)
(***************************************************************************)
EXTENDS Integers, Sequences, FiniteSets, TLC

VARIABLES drv, conn, dev, op, args, ev, outcome, result, ncalls

vars == <<drv, conn, dev, op, args, ev, outcome, result, ncalls>>

\* Number of method calls made on one driver object after its construction.
MaxCalls == 2

-----------------------------------------------------------------------------
(* Tokens of the wire format *)

\* Mn("X") is the mnemonic X of a write, Qn("X") the mnemonic "X?" of a query.
\* IntV also stands for the "{:2d}" fields: the padding only adds a blank.
\* Lit is a value written literally in a format string ("500.", "0.").
Mn(s) == [k |-> "mn", s |-> s, n |-> 0]
Qn(s) == [k |-> "qn", s |-> s, n |-> 0]
Lit(s) == [k |-> "lit", s |-> s, n |-> 0]
Sp == [k |-> "sep", s |-> " ", n |-> 0]
Comma == [k |-> "sep", s |-> ",", n |-> 0]
IntV(n) == [k |-> "int", s |-> "", n |-> n]
BoolV(b) == [k |-> "bool", s |-> "", n |-> IF b THEN 1 ELSE 0]
FltV(v) == [k |-> "flt", s |-> "", n |-> v]
StrV(s) == [k |-> "str", s |-> s, n |-> 0]

\* Optional arguments: None is the empty set, a supplied value v is {v}.
None == {}
Some(v) == {v}
The(o) == CHOOSE x \in o : TRUE

\* Round v >= 0 to the nearest multiple of q, ties to even.
RoundTo(v, q) ==
  LET lo == (v \div q) * q
      r == v - lo
  IN IF 2 * r < q THEN lo
     ELSE IF 2 * r > q THEN lo + q
     ELSE IF (v \div q) % 2 = 0 THEN lo ELSE lo + q

\* One unit of the third decimal place, in units of 1e-7 ("{:.3f}").
Q3 == 10000
\* One unit of the sixth decimal place, in units of 1e-7 ("{:f}").
Q6 == 10

Fmt3(v) == RoundTo(v, Q3)
Fmt6(v) == RoundTo(v, Q6)

\* The values of a message: the tokens at positions 3, 5, 7, ...
Values(msg) == [i \in 1..((Len(msg) - 1) \div 2) |-> msg[2 * i + 1]]

\* A bare query "MN?" and a query with one argument "MN? arg".
Query0(mn) == <<Qn(mn)>>
Query1(mn, v) == <<Qn(mn), Sp, v>>

-----------------------------------------------------------------------------
(* The instrument: it stores what it is sent and answers with what it stores *)

Channels218 == {IntV(i) : i \in 1..8}
Groups218 == {StrV("A"), StrV("B")}
Outputs == {IntV(1), IntV(2)}
Channels370 == {IntV(i) : i \in 0..3}

\* Power-on values of the stored settings.
Default(mn) ==
  CASE mn = "INPUT" -> <<IntV(1)>>
    [] mn = "INTYPE" -> <<IntV(0)>>
    [] mn = "ANALOG" -> <<BoolV(FALSE), IntV(1), IntV(1), IntV(1),
                          FltV(1000 * Q3), FltV(0), FltV(0)>>
    [] mn = "FILTER" -> <<BoolV(FALSE), IntV(8), IntV(1)>>
    [] mn = "RDGRNG" -> <<IntV(0), IntV(1), IntV(22), IntV(1), IntV(0)>>
    [] mn = "SCAN" -> <<IntV(1), IntV(0)>>
    [] mn = "CMODE" -> <<IntV(4)>>
    [] mn = "CSET" -> <<IntV(1), IntV(0), IntV(1), IntV(25), IntV(1), IntV(8),
                        FltV(1000 * Q3)>>
    [] mn = "HTRRNG" -> <<IntV(0)>>
    [] mn = "MOUT" -> <<FltV(0)>>
    [] OTHER -> <<IntV(0)>>

Device218 ==
  [model |-> "218",
   reg |-> [m \in {"NONE"} |-> <<>>],
   tab |-> [INPUT |-> [i \in Channels218 |-> Default("INPUT")],
            INTYPE |-> [i \in Groups218 |-> Default("INTYPE")],
            ANALOG |-> [i \in Outputs |-> Default("ANALOG")],
            FILTER |-> [i \in Channels218 |-> Default("FILTER")]]]

Device370 ==
  [model |-> "370",
   reg |-> [m \in {"SCAN", "CMODE", "CSET", "HTRRNG", "MOUT"} |-> Default(m)],
   tab |-> [RDGRNG |-> [i \in Channels370 |-> Default("RDGRNG")],
            ANALOG |-> [i \in Outputs |-> Default("ANALOG")]]]

\* The analog output value: the manual value in manual mode (2), else zero.
DevAout(d, i) ==
  IF i \in DOMAIN d.tab["ANALOG"] /\ d.tab["ANALOG"][i][2].n = 2
  THEN <<d.tab["ANALOG"][i][7]>> ELSE <<FltV(0)>>

DevReply(d, msg) ==
  LET mn == msg[1].s
  IN CASE mn = "*IDN" -> <<StrV("LSCI")>>
       [] mn = "*OPC" -> <<IntV(1)>>
       [] mn = "AOUT" -> DevAout(d, msg[3])
       [] mn \in {"KRDG", "SRDG", "RDGR", "RDGPWR"} -> <<FltV(msg[3].n * Q3)>>
       [] mn \in DOMAIN d.tab ->
            IF Len(msg) >= 3 /\ msg[3] \in DOMAIN d.tab[mn]
            THEN d.tab[mn][msg[3]] ELSE Default(mn)
       [] mn \in DOMAIN d.reg -> d.reg[mn]
       [] OTHER -> <<IntV(0)>>

DevWrite(d, msg) ==
  LET mn == msg[1].s
      vals == Values(msg)
  IN CASE mn \in DOMAIN d.tab ->
            IF vals # <<>> /\ vals[1] \in DOMAIN d.tab[mn]
            THEN [d EXCEPT !.tab[mn][vals[1]] = Tail(vals)] ELSE d
       [] mn \in DOMAIN d.reg -> [d EXCEPT !.reg[mn] = vals]
       [] OTHER -> d

-----------------------------------------------------------------------------
(* The transport: one run of a method body *)

\* The state of a running call: the instrument, the events of the call so
\* far, the error that ended it ("" while it runs), the countdown to the
\* injected failure and the value of the last expression.
Start(d, failAt) == [dev |-> d, ev |-> <<>>, err |-> "", fail |-> failAt, ret |-> <<>>]

Event(kind, msg, ok, reply, tmo) ==
  [e |-> kind, msg |-> msg, ok |-> ok, reply |-> reply, tmo |-> tmo]

Send(c, kind, msg, tmo) ==
  IF c.err # "" THEN c
  ELSE IF c.fail = 1
  THEN [c EXCEPT !.ev = Append(@, Event(kind, msg, FALSE, <<>>, tmo)),
                 !.err = "transport_error", !.fail = 0]
  ELSE LET reply == IF kind = "ask" THEN DevReply(c.dev, msg) ELSE <<>>
       IN [dev |-> IF kind = "write" THEN DevWrite(c.dev, msg) ELSE c.dev,
           ev |-> Append(c.ev, Event(kind, msg, TRUE, reply, tmo)),
           err |-> "",
           fail |-> IF c.fail > 1 THEN c.fail - 1 ELSE 0,
           ret |-> reply]

Raise(c, e) == IF c.err # "" THEN c ELSE [c EXCEPT !.err = e]
Return(c, v) == IF c.err # "" THEN c ELSE [c EXCEPT !.ret = v]

Ask(c, msg) == Send(c, "ask", msg, 0)

\* _default_write_sync: Lakeshore218 sets it, Lakeshore370 inherits False.
DefaultWriteSync(model) == model = "218"

\* SCPIDevice.write: the command, then the synchronisation query when the
\* class asks for one.
Write(c, msg) ==
  LET c1 == Send(c, "write", msg, 0)
  IN IF DefaultWriteSync(c.dev.model) THEN Ask(c1, Query0("*OPC")) ELSE c1

\* SCPIDevice.wait_dev
WaitDev(c) == Send(c, "write", <<Mn("*WAI")>>, 0)

\* SCPIDevice.get_id(timeout)
GetId(c, tmo) == Send(c, "ask", Query0("*IDN"), tmo)

-----------------------------------------------------------------------------
(* Lakeshore370 *)

\* Python strings whose characters matter are sequences of characters.
\* v in r, for two strings: v is a contiguous part of r.
StrIn(v, r) == \E i \in 0..(Len(r) - Len(v)) : SubSeq(r, i + 1, i + Len(v)) = v

\* funcargparse.check_parameter_range(v, name, r): v must be "in" r.
check_parameter_range(c, v, r) ==
  IF StrIn(v, r) THEN c ELSE Raise(c, "invalid_parameter")

get_resistance(c, channel) ==
  LET c1 == Ask(c, Query1("RDGR", IntV(channel)))
  IN Return(c1, c1.ret[1].n)

get_sensor_power(c, channel) ==
  LET c1 == Ask(c, Query1("RDGPWR", IntV(channel)))
  IN Return(c1, c1.ret[1].n)

select_channel(c, channel) ==
  Return(Write(c, <<Mn("SCAN"), Sp, IntV(channel), Comma, IntV(0)>>), <<>>)

get_channel(c) ==
  LET c1 == Ask(c, Query0("SCAN"))
  IN Return(c1, c1.ret[1].n)

setup_channel(c, channel, mode, exc_range, res_range, autorange) ==
  LET c1 == check_parameter_range(c, mode, <<"I", "V">>)
      ch == IF channel = None THEN 0 ELSE The(channel)
      m == IF mode = <<"V">> THEN 0 ELSE 1
      ar == IF autorange THEN 1 ELSE 0
  IN Return(Write(c1, <<Mn("RDGRNG"), Sp, IntV(ch), Comma, IntV(m), Comma,
                        IntV(exc_range), Comma, IntV(res_range), Comma,
                        IntV(ar), Comma, IntV(0)>>), <<>>)

\* setup_heater_openloop with the range written before the control loop
\* setup.
setup_heater_openloop_swapped(c, heater_range, heater_percent, heater_res) ==
  LET c1 == Write(c, <<Mn("CMODE"), Sp, IntV(3)>>)
      c2 == Write(c1, <<Mn("HTRRNG"), Sp, IntV(heater_range)>>)
      c3 == Write(c2, <<Mn("CSET"), Sp, IntV(1), Comma, IntV(0), Comma, IntV(1),
                        Comma, IntV(25), Comma, IntV(1), Comma,
                        IntV(heater_range), Comma, FltV(Fmt6(heater_res))>>)
      c4 == Write(c3, <<Mn("MOUT"), Sp, FltV(Fmt6(heater_percent))>>)
  IN Return(c4, <<>>)

setup_heater_openloop(c, heater_range, heater_percent, heater_res) ==
  LET c1 == Write(c, <<Mn("CMODE"), Sp, IntV(3)>>)
      c2 == Write(c1, <<Mn("CSET"), Sp, IntV(1), Comma, IntV(0), Comma, IntV(1),
                        Comma, IntV(25), Comma, IntV(1), Comma,
                        IntV(heater_range), Comma, FltV(Fmt6(heater_res))>>)
      c3 == Write(c2, <<Mn("HTRRNG"), Sp, IntV(heater_range)>>)
      c4 == Write(c3, <<Mn("MOUT"), Sp, FltV(Fmt6(heater_percent))>>)
  IN Return(c4, <<>>)

\* get_heater_settings_openloop reading the range from the CSET? reply, as
\* in the commented-out return statement, with no HTRRNG? query.
get_heater_settings_openloop_cset(c) ==
  LET c1 == Ask(c, Query0("CSET"))
      cset_reply == c1.ret
      c2 == Ask(c1, Query0("MOUT"))
      heater_percent == c2.ret[1].n
  IN Return(c2, <<cset_reply[6].n, heater_percent, cset_reply[7].n>>)

get_heater_settings_openloop(c) ==
  LET c1 == Ask(c, Query0("CSET"))
      cset_reply == c1.ret
      c2 == Ask(c1, Query0("MOUT"))
      heater_percent == c2.ret[1].n
      c3 == Ask(c2, Query0("HTRRNG"))
      heater_range == c3.ret[1].n
  IN Return(c3, <<heater_range, heater_percent, cset_reply[7].n>>)

get_analog_output_370(c, channel) ==
  LET c1 == Ask(c, Query1("AOUT", IntV(channel)))
  IN Return(c1, c1.ret[1].n)

\* set_analog_output sending the write a second time when it fails.
set_analog_output_retry(c, channel, value) ==
  LET msg == IF value = 0
             THEN <<Mn("ANALOG"), Sp, IntV(channel), Comma, IntV(0),
                    Comma, IntV(0), Comma, IntV(1), Comma, IntV(1),
                    Comma, Lit("500."), Comma, IntV(0), Comma, Lit("0.")>>
             ELSE <<Mn("ANALOG"), Sp, IntV(channel), Comma, IntV(0),
                    Comma, IntV(2), Comma, IntV(1), Comma, IntV(1),
                    Comma, Lit("500."), Comma, IntV(0), Comma,
                    FltV(Fmt6(value))>>
      c1 == Write(c, msg)
      c2 == IF c1.err = "transport_error"
            THEN Write([c1 EXCEPT !.err = ""], msg) ELSE c1
  IN get_analog_output_370(c2, channel)

\* set_analog_output without the special case for 0.
set_analog_output_nozero(c, channel, value) ==
  LET c1 == Write(c, <<Mn("ANALOG"), Sp, IntV(channel), Comma, IntV(0),
                       Comma, IntV(2), Comma, IntV(1), Comma, IntV(1),
                       Comma, Lit("500."), Comma, IntV(0), Comma,
                       FltV(Fmt6(value))>>)
  IN get_analog_output_370(c1, channel)

set_analog_output(c, channel, value) ==
  LET c1 == IF value = 0
            THEN Write(c, <<Mn("ANALOG"), Sp, IntV(channel), Comma, IntV(0),
                            Comma, IntV(0), Comma, IntV(1), Comma, IntV(1),
                            Comma, Lit("500."), Comma, IntV(0), Comma,
                            Lit("0.")>>)
            ELSE Write(c, <<Mn("ANALOG"), Sp, IntV(channel), Comma, IntV(0),
                            Comma, IntV(2), Comma, IntV(1), Comma, IntV(1),
                            Comma, Lit("500."), Comma, IntV(0), Comma,
                            FltV(Fmt6(value))>>)
  IN get_analog_output_370(c1, channel)

-----------------------------------------------------------------------------
(* Lakeshore218 *)

\* interface.RangeParameterClass / EnumParameterClass, applied to an
\* argument by the use_parameters wrapper before the method body runs.
\* An optional argument left at None is passed through unchecked.
p_channel(v) == v \in 1..8
p_output(v) == v \in 1..2
p_group(v) == v \in {"A", "B"}
p_sensor_type ==
  [n \in {"diode_2.5", "diode_7.5", "plat_250", "plat_500", "plat_5k", "cernox"} |->
     CASE n = "diode_2.5" -> 0 [] n = "diode_7.5" -> 1 [] n = "plat_250" -> 2
       [] n = "plat_500" -> 3 [] n = "plat_5k" -> 4 [] n = "cernox" -> 5]
p_output_mode ==
  [n \in {"off", "input", "manual"} |->
     CASE n = "off" -> 0 [] n = "input" -> 1 [] n = "manual" -> 2]
p_source ==
  [n \in {"kelvin", "celsius", "sensor", "linear"} |->
     CASE n = "kelvin" -> 1 [] n = "celsius" -> 2 [] n = "sensor" -> 3
       [] n = "linear" -> 4]

\* The wrapper's check of one argument.
Check(c, valid) == IF valid THEN c ELSE Raise(c, "invalid_parameter")
\* The check of an enumerated optional argument, and its device value.
EnumOk(p, o) == o = None \/ The(o) \in DOMAIN p
\* The _returns conversion of a device value back to its name.
EnumName(p, v) ==
  IF \E n \in DOMAIN p : p[n] = v THEN CHOOSE n \in DOMAIN p : p[n] = v
  ELSE "unknown"

is_enabled(c, channel) ==
  LET c0 == Check(c, p_channel(channel))
      c1 == Ask(c0, Query1("INPUT", IntV(channel)))
  IN Return(c1, c1.ret[1].n # 0)

set_enabled(c, channel, enabled) ==
  LET c0 == Check(c, p_channel(channel))
      c1 == Write(c0, <<Mn("INPUT"), Sp, IntV(channel), Sp,
                        IntV(IF enabled THEN 1 ELSE 0)>>)
  IN is_enabled(c1, channel)

\* Returned values that are either a name or a device code are kept as
\* StrV(name) / IntV(code), so that the two can be told apart.
get_sensor_type(c, group) ==
  LET c0 == Check(c, p_group(group))
      c1 == Ask(c0, Query1("INTYPE", StrV(group)))
  IN Return(c1, IntV(c1.ret[1].n))

set_sensor_type(c, group, sensor_type) ==
  LET c0 == Check(Check(c, p_group(group)), sensor_type \in DOMAIN p_sensor_type)
      c1 == Write(c0, <<Mn("INTYPE"), Sp, StrV(group), Sp,
                        IntV(p_sensor_type[sensor_type])>>)
      c2 == WaitDev(c1)
  IN get_sensor_type(c2, group)

get_temperature(c, channel) ==
  LET c0 == Check(c, p_channel(channel))
      c1 == Ask(c0, Query1("KRDG", IntV(channel)))
  IN Return(c1, c1.ret[1].n)

get_sensor_reading(c, channel) ==
  LET c0 == Check(c, p_channel(channel))
      c1 == Ask(c0, Query1("SRDG", IntV(channel)))
  IN Return(c1, c1.ret[1].n)

\* The reply of ANALOG? parsed as ["bool","int","int","int","float","float",
\* "float"], the mode and the source converted to their names on request.
AnalogValues(r, named) ==
  [i \in 1..7 |->
     CASE i = 1 -> r[i].n # 0
       [] i = 2 -> IF named THEN StrV(EnumName(p_output_mode, r[i].n)) ELSE IntV(r[i].n)
       [] i = 4 -> IF named THEN StrV(EnumName(p_source, r[i].n)) ELSE IntV(r[i].n)
       [] OTHER -> r[i].n]

\* useParams is FALSE when the method is reached through
\* _call_without_parameters: no argument check, no conversion of the result.
get_analog_output_settings(c, output, useParams) ==
  LET c0 == IF useParams THEN Check(c, p_output(output)) ELSE c
      c1 == Ask(c0, Query1("ANALOG", IntV(output)))
  IN Return(c1, AnalogValues(c1.ret, useParams))

\* Keep with the overlay lost: the current value is written back even for a
\* supplied field.
Keep_current(cur, o) == cur

\* c if v is None else v
Keep(cur, o) == IF o = None THEN cur ELSE The(o)

\* [c if v is None else v for c,v in zip(current, given)]
Overlay(current, given) == [i \in 1..Len(given) |-> Keep(current[i], given[i])]

\* [bipolar,mode,channel,source,high_value,low_value,man_value] after the
\* wrapper has replaced the names of mode and source by their device values.
AnalogGiven(a) ==
  <<a.bipolar,
    IF a.mode = None THEN None ELSE Some(IntV(p_output_mode[The(a.mode)])),
    a.channel,
    IF a.source = None THEN None ELSE Some(IntV(p_source[The(a.source)])),
    a.high_value, a.low_value, a.man_value>>

\* SCPIDevice.write("ANALOG", [output]+value) with _float_fmt = "{:.3f}"
ComposeAnalog(output, value) ==
  <<Mn("ANALOG"), Sp, IntV(output), Comma, BoolV(value[1]), Comma,
    value[2], Comma, IntV(value[3]), Comma, value[4], Comma,
    FltV(Fmt3(value[5])), Comma, FltV(Fmt3(value[6])), Comma,
    FltV(Fmt3(value[7]))>>

setup_analog_output(c, output, a) ==
  LET c0 == Check(c, /\ p_output(output)
                     /\ EnumOk(p_output_mode, a.mode)
                     /\ a.channel = None \/ p_channel(The(a.channel))
                     /\ EnumOk(p_source, a.source))
      c1 == get_analog_output_settings(c0, output, FALSE)
      c2 == Write(c1, ComposeAnalog(output, Overlay(c1.ret, AnalogGiven(a))))
  IN get_analog_output_settings(c2, output, TRUE)

get_analog_output(c, output) ==
  LET c0 == Check(c, p_output(output))
      c1 == Ask(c0, Query1("AOUT", IntV(output)))
  IN Return(c1, c1.ret[1].n)

NoFields ==
  [bipolar |-> None, mode |-> None, channel |-> None, source |-> None,
   high_value |-> None, low_value |-> None, man_value |-> None]

set_analog_output_value(c, output, value, bipolar, enabled) ==
  LET a == IF ~enabled
            THEN [NoFields EXCEPT !.mode = Some("off")]
            ELSE [NoFields EXCEPT !.bipolar = Some(bipolar),
                                    !.mode = Some("manual"),
                                    !.man_value = Some(value)]
      c1 == setup_analog_output(c, output, a)
  IN get_analog_output(c1, output)

\* The reply of FILTER? parsed as ["bool","int","int"].
FilterValues(r) == [i \in 1..3 |-> IF i = 1 THEN r[i].n # 0 ELSE r[i].n]

get_filter_settings(c, channel, useParams) ==
  LET c0 == IF useParams THEN Check(c, p_channel(channel)) ELSE c
      c1 == Ask(c0, Query1("FILTER", IntV(channel)))
  IN Return(c1, FilterValues(c1.ret))

\* SCPIDevice.write("FILTER", [channel]+value)
ComposeFilter(channel, value) ==
  <<Mn("FILTER"), Sp, IntV(channel), Comma, BoolV(value[1]), Comma,
    IntV(value[2]), Comma, IntV(value[3])>>

\* setup_filter carries no use_parameters wrapper.
setup_filter(c, channel, a) ==
  LET c1 == get_filter_settings(c, channel, FALSE)
      c2 == Write(c1, ComposeFilter(channel,
                        Overlay(c1.ret, <<a.enabled, a.points, a.window>>)))
  IN get_filter_settings(c2, channel, TRUE)

-----------------------------------------------------------------------------
(* Construction and the calls *)

Init ==
  /\ drv = "none"
  /\ conn = "closed"
  /\ dev \in {Device218, Device370}
  /\ op = "none"
  /\ args = <<>>
  /\ ev = <<>>
  /\ outcome = "none"
  /\ result = <<>>
  /\ ncalls = 0

\* The connection is open after a run whose last open comes after its last
\* close.
IsOpen(e) ==
  \E i \in 1..Len(e) : e[i].e = "open" /\ \A j \in (i + 1)..Len(e) : e[j].e # "close"

\* The handler raising without closing the connection.
OnOpenError_noclose(c) == [c EXCEPT !.err = "open_error", !.ret = <<c.err>>]

\* except self.instr.Error as e: self.close(); raise BackendOpenError(e)
OnOpenError(c) ==
  [c EXCEPT !.ev = Append(@, Event("close", <<>>, TRUE, <<>>, 0)),
            !.err = "open_error", !.ret = <<c.err>>]

\* Lakeshore218.__init__ / Lakeshore370.__init__: open the connection, ask
\* for the identification with a 2 s timeout; on a transport error close the
\* connection and raise BackendOpenError(e).
Construct(model, failAt) ==
  LET c0 == Start(dev, failAt)
      c1 == [c0 EXCEPT !.ev = Append(@, Event("open", <<>>, TRUE, <<>>, 0))]
      c2 == GetId(c1, 2)
      failed == c2.err = "transport_error"
      c3 == IF failed THEN OnOpenError(c2) ELSE c2
  IN /\ drv = "none"
     /\ outcome = "none"
     /\ dev.model = model
     /\ drv' = IF c3.err = "" THEN model ELSE "none"
     /\ conn' = IF IsOpen(c3.ev) THEN "open" ELSE "closed"
     /\ dev' = c3.dev
     /\ op' = "__init__"
     /\ args' = [model |-> model, failAt |-> failAt]
     /\ ev' = c3.ev
     /\ outcome' = IF c3.err = "" THEN "ok" ELSE c3.err
     /\ result' = IF c3.err = "" THEN <<>> ELSE c3.ret
     /\ ncalls' = 0

Construct218 == \E failAt \in 0..1 : Construct("218", failAt)
Construct370 == \E failAt \in 0..1 : Construct("370", failAt)

\* ICommBackendWrapper.close
Close ==
  /\ drv # "none"
  /\ conn = "open"
  /\ conn' = "closed"
  /\ op' = "close"
  /\ args' = <<>>
  /\ ev' = <<Event("close", <<>>, TRUE, <<>>, 0)>>
  /\ outcome' = "ok"
  /\ result' = <<>>
  /\ UNCHANGED <<drv, dev, ncalls>>

\* A call of method name with arguments a whose body ran to c.
Call(model, name, a, c) ==
  /\ drv = model
  /\ conn = "open"
  /\ ncalls < MaxCalls
  /\ dev' = c.dev
  /\ op' = name
  /\ args' = a
  /\ ev' = c.ev
  /\ outcome' = IF c.err = "" THEN "ok" ELSE c.err
  /\ result' = IF c.err = "" THEN c.ret ELSE <<>>
  /\ ncalls' = ncalls + 1
  /\ UNCHANGED <<drv, conn>>

\* The commands of a call at which a transport failure is injected: any of
\* its n commands for the probe arguments, none for the others.
FailPoints(probe, n) == IF probe THEN 0..n ELSE {0}

\* Argument values tried.  Floats are in units of 1e-7.
Channels370In == {1, 2}
ModesIn == {<<"I">>, <<"V">>, <<"X">>, <<>>, <<"I", "V">>, <<"V", "I">>}
FloatsIn == {0, 35000000, 4}

GetResistance ==
  \E ch \in Channels370In : \E failAt \in FailPoints(ch = 1, 1) :
    Call("370", "get_resistance", [channel |-> ch, failAt |-> failAt],
         get_resistance(Start(dev, failAt), ch))

GetSensorPower ==
  \E ch \in Channels370In : \E failAt \in FailPoints(ch = 1, 1) :
    Call("370", "get_sensor_power", [channel |-> ch, failAt |-> failAt],
         get_sensor_power(Start(dev, failAt), ch))

SelectChannel ==
  \E ch \in Channels370In : \E failAt \in FailPoints(ch = 1, 1) :
    Call("370", "select_channel", [channel |-> ch, failAt |-> failAt],
         select_channel(Start(dev, failAt), ch))

GetChannel ==
  \E failAt \in 0..1 :
    Call("370", "get_channel", [failAt |-> failAt], get_channel(Start(dev, failAt)))

SetupChannel ==
  \E ch \in {None, Some(2)}, mode \in ModesIn, ar \in BOOLEAN :
    \E failAt \in FailPoints(ch = None /\ mode = <<"I">> /\ ar, 1) :
    Call("370", "setup_channel",
         [channel |-> ch, mode |-> mode, exc_range |-> 1, res_range |-> 22,
          autorange |-> ar, failAt |-> failAt],
         setup_channel(Start(dev, failAt), ch, mode, 1, 22, ar))

SetupHeaterOpenloop ==
  \E hr \in {1, 5}, hp \in {35000000, 4}, hres \in {1000000000, 4} :
    \E failAt \in FailPoints(hr = 5 /\ hp = 35000000 /\ hres = 1000000000, 4) :
    Call("370", "setup_heater_openloop",
         [heater_range |-> hr, heater_percent |-> hp, heater_res |-> hres,
          failAt |-> failAt],
         setup_heater_openloop(Start(dev, failAt), hr, hp, hres))

GetHeaterSettingsOpenloop ==
  \E failAt \in 0..3 :
    Call("370", "get_heater_settings_openloop", [failAt |-> failAt],
         get_heater_settings_openloop(Start(dev, failAt)))

SetAnalogOutput ==
  \E ch \in Channels370In, v \in FloatsIn :
    \E failAt \in FailPoints(ch = 1 /\ v \in {0, 35000000}, 2) :
    Call("370", "set_analog_output", [channel |-> ch, value |-> v, failAt |-> failAt],
         set_analog_output(Start(dev, failAt), ch, v))

GetAnalogOutput370 ==
  \E ch \in Channels370In : \E failAt \in FailPoints(ch = 1, 1) :
    Call("370", "get_analog_output", [channel |-> ch, failAt |-> failAt],
         get_analog_output_370(Start(dev, failAt), ch))

Next370 ==
  \/ GetResistance \/ GetSensorPower \/ SelectChannel \/ GetChannel
  \/ SetupChannel \/ SetupHeaterOpenloop \/ GetHeaterSettingsOpenloop
  \/ SetAnalogOutput \/ GetAnalogOutput370

ChannelsIn == {0, 1, 8, 9}
GroupsIn == {"A", "B", "C"}
SensorTypesIn ==
  {"diode_2.5", "diode_7.5", "plat_250", "plat_500", "plat_5k", "cernox", "bogus"}
OutputsIn == {0, 1, 2, 3}
SetupOutputsIn == {1, 2, 3}

\* The values a setup_analog_output call may supply and the sets of fields
\* supplied together: none, each field alone, the pair of the spec's example,
\* the three fields of set_analog_output_value, and all seven.
AnalogFields ==
  {"bipolar", "mode", "channel", "source", "high_value", "low_value", "man_value"}
AnalogValuesIn ==
  [bipolar |-> TRUE, mode |-> "manual", channel |-> 3, source |-> "sensor",
   high_value |-> 20000000, low_value |-> 5000000, man_value |-> 50004000]
AnalogArgs(f) ==
  [bipolar |-> IF "bipolar" \in f THEN Some(AnalogValuesIn.bipolar) ELSE None,
   mode |-> IF "mode" \in f THEN Some(AnalogValuesIn.mode) ELSE None,
   channel |-> IF "channel" \in f THEN Some(AnalogValuesIn.channel) ELSE None,
   source |-> IF "source" \in f THEN Some(AnalogValuesIn.source) ELSE None,
   high_value |-> IF "high_value" \in f THEN Some(AnalogValuesIn.high_value) ELSE None,
   low_value |-> IF "low_value" \in f THEN Some(AnalogValuesIn.low_value) ELSE None,
   man_value |-> IF "man_value" \in f THEN Some(AnalogValuesIn.man_value) ELSE None]
AnalogSuppliedIn ==
  {{}, AnalogFields, {"mode", "man_value"}, {"bipolar", "mode", "man_value"}}
    \cup {{f} : f \in AnalogFields}
AnalogArgsIn ==
  {AnalogArgs(f) : f \in AnalogSuppliedIn}
     \cup {[NoFields EXCEPT !.mode = Some("bogus")],
           [NoFields EXCEPT !.channel = Some(9)],
           [NoFields EXCEPT !.source = Some("bogus")]}

FilterFields == {"enabled", "points", "window"}
FilterArgs(f) ==
  [enabled |-> IF "enabled" \in f THEN Some(TRUE) ELSE None,
   points |-> IF "points" \in f THEN Some(4) ELSE None,
   window |-> IF "window" \in f THEN Some(2) ELSE None]
FilterArgsIn == {FilterArgs(f) : f \in SUBSET FilterFields}

IsEnabled ==
  \E ch \in ChannelsIn : \E failAt \in FailPoints(ch = 1, 1) :
    Call("218", "is_enabled", [channel |-> ch, failAt |-> failAt],
         is_enabled(Start(dev, failAt), ch))

SetEnabled ==
  \E ch \in ChannelsIn, en \in BOOLEAN :
    \E failAt \in FailPoints(ch = 1, 3) :
    Call("218", "set_enabled", [channel |-> ch, enabled |-> en, failAt |-> failAt],
         set_enabled(Start(dev, failAt), ch, en))

GetSensorType ==
  \E g \in GroupsIn : \E failAt \in FailPoints(g = "A", 1) :
    Call("218", "get_sensor_type", [group |-> g, failAt |-> failAt],
         get_sensor_type(Start(dev, failAt), g))

SetSensorType ==
  \E g \in GroupsIn, t \in SensorTypesIn :
    \E failAt \in FailPoints(g = "A" /\ t = "plat_250", 4) :
    Call("218", "set_sensor_type",
         [group |-> g, sensor_type |-> t, failAt |-> failAt],
         set_sensor_type(Start(dev, failAt), g, t))

GetTemperature ==
  \E ch \in ChannelsIn : \E failAt \in FailPoints(ch = 1, 1) :
    Call("218", "get_temperature", [channel |-> ch, failAt |-> failAt],
         get_temperature(Start(dev, failAt), ch))

GetSensorReading ==
  \E ch \in ChannelsIn : \E failAt \in FailPoints(ch = 1, 1) :
    Call("218", "get_sensor_reading", [channel |-> ch, failAt |-> failAt],
         get_sensor_reading(Start(dev, failAt), ch))

GetAnalogOutputSettings ==
  \E o \in OutputsIn : \E failAt \in FailPoints(o = 1, 1) :
    Call("218", "get_analog_output_settings", [output |-> o, failAt |-> failAt],
         get_analog_output_settings(Start(dev, failAt), o, TRUE))

SetupAnalogOutput ==
  \E o \in SetupOutputsIn, a \in AnalogArgsIn :
    \E failAt \in FailPoints(o = 1 /\ a \in {AnalogArgs({"mode", "man_value"}),
                                            AnalogArgs({"channel"})}, 4) :
    Call("218", "setup_analog_output",
         [output |-> o, fields |-> a, failAt |-> failAt],
         setup_analog_output(Start(dev, failAt), o, a))

SetAnalogOutputValue ==
  \E o \in SetupOutputsIn, v \in {50000000, 50004000}, bp \in BOOLEAN, en \in BOOLEAN :
    \E failAt \in FailPoints(o = 1 /\ ~bp /\ v = 50000000, 5) :
    Call("218", "set_analog_output_value",
         [output |-> o, value |-> v, bipolar |-> bp, enabled |-> en,
          failAt |-> failAt],
         set_analog_output_value(Start(dev, failAt), o, v, bp, en))

GetAnalogOutput218 ==
  \E o \in OutputsIn : \E failAt \in FailPoints(o = 1, 1) :
    Call("218", "get_analog_output", [output |-> o, failAt |-> failAt],
         get_analog_output(Start(dev, failAt), o))

GetFilterSettings ==
  \E ch \in ChannelsIn : \E failAt \in FailPoints(ch = 1, 1) :
    Call("218", "get_filter_settings", [channel |-> ch, failAt |-> failAt],
         get_filter_settings(Start(dev, failAt), ch, TRUE))

SetupFilter ==
  \E ch \in ChannelsIn, a \in FilterArgsIn :
    \E failAt \in FailPoints(ch \in {1, 9} /\ a = FilterArgs({"points"}), 4) :
    Call("218", "setup_filter", [channel |-> ch, fields |-> a, failAt |-> failAt],
         setup_filter(Start(dev, failAt), ch, a))

Next218 ==
  \/ IsEnabled \/ SetEnabled \/ GetSensorType \/ SetSensorType
  \/ GetTemperature \/ GetSensorReading \/ GetAnalogOutputSettings
  \/ SetupAnalogOutput \/ SetAnalogOutputValue \/ GetAnalogOutput218
  \/ GetFilterSettings \/ SetupFilter

Next == Construct218 \/ Construct370 \/ Close \/ Next218 \/ Next370

Spec == Init /\ [][Next]_vars

-----------------------------------------------------------------------------
(* Properties *)

\* The commands the last call put on the wire, in order.
Sent == SelectSeq(ev, LAMBDA x : x.e \in {"write", "ask"})

IsValue(t) == t.k \in {"int", "bool", "flt", "str", "lit"}

\* "COMMAND value1,value2,..."
WriteForm(msg) ==
  /\ msg[1].k = "mn"
  /\ Len(msg) > 1 => msg[2] = Sp /\ Len(msg) % 2 = 1
  /\ \A i \in 3..Len(msg) : IF i % 2 = 1 THEN IsValue(msg[i]) ELSE msg[i] = Comma

\* "COMMAND?" or "COMMAND? argument"
QueryForm(msg) ==
  /\ msg[1].k = "qn"
  /\ Len(msg) = 1 \/ (Len(msg) = 3 /\ msg[2] = Sp /\ IsValue(msg[3]))

\* C1: Lakeshore370.setup_channel fails with an invalid-parameter error, and
\* has written nothing to the transport, for every mode that is not exactly
\* the one-character string "I" or "V".
C1_ModeValidated ==
  (op = "setup_channel" /\ args.mode \notin {<<"I">>, <<"V">>})
    => (outcome = "invalid_parameter" /\ ev = <<>>)

ChannelOps218 ==
  {"is_enabled", "set_enabled", "get_temperature", "get_sensor_reading",
   "get_filter_settings", "setup_filter"}
OutputOps218 ==
  {"get_analog_output_settings", "setup_analog_output", "set_analog_output_value",
   "get_analog_output"}
GroupOps218 == {"get_sensor_type", "set_sensor_type"}

\* The last call was a Lakeshore218 call whose channel, output or group is
\* out of range.
BadTarget218 ==
  /\ drv = "218"
  /\ \/ op \in ChannelOps218 /\ args.channel \notin 1..8
     \/ op \in OutputOps218 /\ args.output \notin 1..2
     \/ op \in GroupOps218 /\ args.group \notin {"A", "B"}

\* C2: every Lakeshore218 operation that takes a channel, output or group
\* fails with an invalid-parameter error on an out-of-range one, before any
\* query or write of the call reaches the transport.
C2_TargetValidatedFirst ==
  BadTarget218 => (outcome = "invalid_parameter" /\ ev = <<>>)

\* C3: set_sensor_type(group, t) returns t, and a get_sensor_type(group)
\* that follows it directly returns t, the enumeration value passed in.
C3_SensorTypeRoundTrip ==
  /\ [](op = "set_sensor_type" /\ outcome = "ok"
          => result = StrV(args.sensor_type))
  /\ [][(/\ op = "set_sensor_type" /\ outcome = "ok"
         /\ op' = "get_sensor_type" /\ outcome' = "ok"
         /\ args'.group = args.group)
          => result' = StrV(args.sensor_type)]_vars

\* C10: every write sent by either driver is a mnemonic followed by its
\* values separated by commas, and every query is "COMMAND?" followed by its
\* argument.
C10_WireFormat ==
  \A i \in 1..Len(ev) :
    /\ ev[i].e = "write" => WriteForm(ev[i].msg)
    /\ ev[i].e = "ask" => QueryForm(ev[i].msg)

\* The tokens a setup_analog_output call with fields a puts on the wire for
\* the fields it supplies (position i of the ANALOG settings), in the wire
\* format of the 218 ("{:.3f}" for the three float fields).
AnalogSuppliedAt(a, i) ==
  CASE i = 1 -> a.bipolar [] i = 2 -> a.mode [] i = 3 -> a.channel
    [] i = 4 -> a.source [] i = 5 -> a.high_value [] i = 6 -> a.low_value
    [] i = 7 -> a.man_value
AnalogWireAt(a, i) ==
  CASE i = 1 -> BoolV(The(a.bipolar))
    [] i = 2 -> IntV(p_output_mode[The(a.mode)])
    [] i = 3 -> IntV(The(a.channel))
    [] i = 4 -> IntV(p_source[The(a.source)])
    [] i = 5 -> FltV(Fmt3(The(a.high_value)))
    [] i = 6 -> FltV(Fmt3(The(a.low_value)))
    [] i = 7 -> FltV(Fmt3(The(a.man_value)))
FilterSuppliedAt(a, i) ==
  CASE i = 1 -> a.enabled [] i = 2 -> a.points [] i = 3 -> a.window
FilterWireAt(a, i) ==
  CASE i = 1 -> BoolV(The(a.enabled)) [] i = 2 -> IntV(The(a.points))
    [] i = 3 -> IntV(The(a.window))

Writes(e, mn) == SelectSeq(e, LAMBDA x : x.e = "write" /\ x.msg[1] = Mn(mn))

\* The write of the last setup call: one write, after the query of the same
\* target, carrying the supplied values and the queried ones.
C4_AnalogWrite ==
  (op = "setup_analog_output" /\ args.output \in 1..2 /\ Len(ev) >= 2) =>
    /\ ev[1].e = "ask" /\ ev[1].msg = Query1("ANALOG", IntV(args.output))
    /\ ev[2].e = "write" /\ ev[2].msg[1] = Mn("ANALOG")
    /\ Len(Writes(ev, "ANALOG")) = 1
    /\ Values(ev[2].msg) =
         <<IntV(args.output)>> \o
         [i \in 1..7 |-> IF AnalogSuppliedAt(args.fields, i) = None
                         THEN ev[1].reply[i] ELSE AnalogWireAt(args.fields, i)]
C4_FilterWrite ==
  (op = "setup_filter" /\ args.channel \in 1..8 /\ Len(ev) >= 2) =>
    /\ ev[1].e = "ask" /\ ev[1].msg = Query1("FILTER", IntV(args.channel))
    /\ ev[2].e = "write" /\ ev[2].msg[1] = Mn("FILTER")
    /\ Len(Writes(ev, "FILTER")) = 1
    /\ Values(ev[2].msg) =
         <<IntV(args.channel)>> \o
         [i \in 1..3 |-> IF FilterSuppliedAt(args.fields, i) = None
                         THEN ev[1].reply[i] ELSE FilterWireAt(args.fields, i)]

\* The effect of a setup call on the instrument: the target's settings
\* change in the supplied fields only, everything else is as before.
C4_AnalogFrame ==
  (op' = "setup_analog_output" /\ args'.output \in 1..2) =>
    /\ \A o \in Outputs \ {IntV(args'.output)} :
         dev'.tab["ANALOG"][o] = dev.tab["ANALOG"][o]
    /\ \A i \in 1..7 :
         LET new == dev'.tab["ANALOG"][IntV(args'.output)][i]
             old == dev.tab["ANALOG"][IntV(args'.output)][i]
         IN IF AnalogSuppliedAt(args'.fields, i) = None THEN new = old
            ELSE outcome' = "ok" => new = AnalogWireAt(args'.fields, i)
    /\ dev'.tab["FILTER"] = dev.tab["FILTER"]
    /\ dev'.tab["INPUT"] = dev.tab["INPUT"]
    /\ dev'.tab["INTYPE"] = dev.tab["INTYPE"]
C4_FilterFrame ==
  (op' = "setup_filter" /\ args'.channel \in 1..8) =>
    /\ \A ch \in Channels218 \ {IntV(args'.channel)} :
         dev'.tab["FILTER"][ch] = dev.tab["FILTER"][ch]
    /\ \A i \in 1..3 :
         LET new == dev'.tab["FILTER"][IntV(args'.channel)][i]
             old == dev.tab["FILTER"][IntV(args'.channel)][i]
         IN IF FilterSuppliedAt(args'.fields, i) = None THEN new = old
            ELSE outcome' = "ok" => new = FilterWireAt(args'.fields, i)
    /\ dev'.tab["ANALOG"] = dev.tab["ANALOG"]
    /\ dev'.tab["INPUT"] = dev.tab["INPUT"]
    /\ dev'.tab["INTYPE"] = dev.tab["INTYPE"]

\* C4: setup_analog_output and setup_filter send a single ANALOG/FILTER
\* write that carries, for each supplied field, the supplied value and, for
\* each field left as None, the value returned by the query at the start of
\* the call; afterwards the settings of the target differ from the prior
\* ones only in the supplied fields and every other output/channel is
\* unchanged.  (Values are carried in the wire format of the driver.)
C4_ReadModifyWrite ==
  /\ [](C4_AnalogWrite /\ C4_FilterWrite)
  /\ [][C4_AnalogFrame /\ C4_FilterFrame]_vars

\* A completed setup_analog_output(1, mode="manual", man_value=...) on an
\* output that was in its power-on "input" mode.
C4_Witness ==
  /\ op = "setup_analog_output" /\ outcome = "ok" /\ args.output = 1
  /\ args.fields = AnalogArgs({"mode", "man_value"})
  /\ dev.tab["ANALOG"][IntV(1)] =
       [Default("ANALOG") EXCEPT ![2] = IntV(2), ![7] = FltV(50000000)]
  /\ result[2] = StrV("manual") /\ result[7] = 50000000

\* C5 as stated: get_heater_settings_openloop issues exactly two queries,
\* the multi-field CSET? and one single-field query, and takes the heater
\* resistance from the 7th field of the CSET? reply.
C5_TwoQueries ==
  (op = "get_heater_settings_openloop" /\ outcome = "ok") =>
    /\ Len(Sent) = 2
    /\ Sent[1].e = "ask" /\ Sent[1].msg = Query0("CSET")
    /\ Sent[2].e = "ask" /\ Len(Sent[2].reply) = 1
    /\ result[3] = Sent[1].reply[7].n

\* C5 amended: get_heater_settings_openloop issues exactly three queries,
\* the multi-field CSET? and the single-field MOUT? and HTRRNG?; the heater
\* resistance is the 7th field of the CSET? reply, the percent and the range
\* are the replies of MOUT? and HTRRNG?.
C5_ThreeQueries ==
  (op = "get_heater_settings_openloop" /\ outcome = "ok") =>
    /\ Len(ev) = 3
    /\ \A i \in 1..3 : ev[i].e = "ask"
    /\ <<ev[1].msg, ev[2].msg, ev[3].msg>> =
         <<Query0("CSET"), Query0("MOUT"), Query0("HTRRNG")>>
    /\ Len(ev[1].reply) = 7 /\ Len(ev[2].reply) = 1 /\ Len(ev[3].reply) = 1
    /\ result = <<ev[3].reply[1].n, ev[2].reply[1].n, ev[1].reply[7].n>>

\* A read-back of heater settings that an earlier call has set.
C5_Witness ==
  /\ op = "get_heater_settings_openloop" /\ outcome = "ok"
  /\ result = <<5, 35000000, 1000000000>>

\* The four writes of setup_heater_openloop for the arguments a.
HeaterSequence(a) ==
  <<<<Mn("CMODE"), Sp, IntV(3)>>,
    <<Mn("CSET"), Sp, IntV(1), Comma, IntV(0), Comma, IntV(1), Comma, IntV(25),
      Comma, IntV(1), Comma, IntV(a.heater_range), Comma,
      FltV(Fmt6(a.heater_res))>>,
    <<Mn("HTRRNG"), Sp, IntV(a.heater_range)>>,
    <<Mn("MOUT"), Sp, FltV(Fmt6(a.heater_percent))>>>>

\* C6: setup_heater_openloop sends CMODE 3, CSET (range, resistance),
\* HTRRNG range, MOUT percent in this order, each after the previous one,
\* none omitted, repeated or reordered, and no query in between.
C6_HeaterSequence ==
  op = "setup_heater_openloop" =>
    /\ Len(ev) <= 4
    /\ \A i \in 1..Len(ev) :
         ev[i].e = "write" /\ ev[i].msg = HeaterSequence(args)[i]
    /\ outcome = "ok" => Len(ev) = 4

C6_Witness ==
  /\ op = "setup_heater_openloop" /\ outcome = "ok"
  /\ args.heater_range = 5 /\ args.heater_percent = 35000000
  /\ dev.reg["MOUT"] = <<FltV(35000000)>> /\ dev.reg["HTRRNG"] = <<IntV(5)>>

\* C7: construction sends, after opening the connection, one identification
\* query with a bounded timeout and nothing else; if the query fails the
\* connection is closed before the connection-open error, which wraps the
\* transport error, is raised, and the connection is not open afterwards.
C7_ConstructionFailureCloses ==
  op = "__init__" =>
    /\ ev[1].e = "open"
    /\ Len(Sent) = 1
    /\ Sent[1].e = "ask" /\ Sent[1].msg = Query0("*IDN") /\ Sent[1].tmo > 0
    /\ ~Sent[1].ok =>
         /\ outcome = "open_error" /\ result = <<"transport_error">>
         /\ ev[Len(ev)].e = "close"
         /\ conn = "closed" /\ drv = "none"
    /\ Sent[1].ok => outcome = "ok" /\ conn = "open" /\ drv = args.model

C7_Witness ==
  /\ op = "__init__" /\ outcome = "open_error" /\ args.model = "218"
  /\ conn = "closed"

MultiOps ==
  {"setup_heater_openloop", "get_heater_settings_openloop", "set_analog_output",
   "set_enabled", "set_sensor_type", "setup_analog_output", "setup_filter",
   "set_analog_output_value"}

\* The instrument after the successful writes of e, starting from d.
RECURSIVE Replay(_, _, _)
Replay(d, e, i) ==
  IF i > Len(e) THEN d
  ELSE Replay(IF e[i].e = "write" /\ e[i].ok THEN DevWrite(d, e[i].msg) ELSE d,
              e, i + 1)

\* C8: when the k-th command of a multi-command operation fails, the
\* operation ends with the transport error, the failed command is the last
\* one sent and is sent once, and the instrument keeps the effect of the
\* commands sent before it.
C8_NoRetryNoRollback ==
  [][(op' \in MultiOps /\ \E i \in 1..Len(ev') : ~ev'[i].ok) =>
       /\ outcome' = "transport_error"
       /\ Len(ev') = args'.failAt
       /\ \A i \in 1..Len(ev') : ev'[i].ok <=> i < Len(ev')
       /\ dev' = Replay(dev, ev', 1)]_vars

\* setup_heater_openloop whose third write failed: the mode and the control
\* loop set by the first two writes stay set, the range is not.
C8_Witness ==
  /\ op = "setup_heater_openloop" /\ outcome = "transport_error"
  /\ Len(ev) = 3 /\ args.heater_range = 5
  /\ dev.reg["CMODE"] = <<IntV(3)>> /\ dev.reg["CSET"][6] = IntV(5)
  /\ dev.reg["HTRRNG"] = Default("HTRRNG")

AnalogZeroForm(ch) ==
  <<Mn("ANALOG"), Sp, IntV(ch), Comma, IntV(0), Comma, IntV(0), Comma, IntV(1),
    Comma, IntV(1), Comma, Lit("500."), Comma, IntV(0), Comma, Lit("0.")>>
AnalogManualForm(ch, v) ==
  <<Mn("ANALOG"), Sp, IntV(ch), Comma, IntV(0), Comma, IntV(2), Comma, IntV(1),
    Comma, IntV(1), Comma, Lit("500."), Comma, IntV(0), Comma, FltV(Fmt6(v))>>

\* C9: set_analog_output sends one ANALOG write, in the zero-value disable
\* form (mode 0) when value is 0 and in the manual-value form (mode 2)
\* carrying the value otherwise, followed by one AOUT? query for the same
\* channel whose reply is the returned value.
C9_AnalogOutputForms ==
  op = "set_analog_output" =>
    /\ Len(ev) \in 1..2
    /\ ev[1].e = "write"
    /\ ev[1].msg = IF args.value = 0 THEN AnalogZeroForm(args.channel)
                   ELSE AnalogManualForm(args.channel, args.value)
    /\ Len(ev) = 2 => ev[2].e = "ask" /\ ev[2].msg = Query1("AOUT", IntV(args.channel))
    /\ outcome = "ok" => Len(ev) = 2 /\ result = ev[2].reply[1].n

C9_Witness ==
  /\ op = "set_analog_output" /\ outcome = "ok" /\ args.value = 0
  /\ ev[1].msg[7] = IntV(0) /\ result = 0

====
